---- MODULE Spec2Model ----
(***************************************************************************)
(* The latency alert monitor of src/alert_module.py: the monitoring loop   *)
(* (LatencyAlertMonitor.monitor), the window extraction, the statistics    *)
(* (calculate_statistics) and the cooldown-gated alerting                  *)
(* (check_thresholds, send_notification).                                  *)
(*                                                                         *)
(* Time is in seconds.  Clock readings and record timestamps are drawn     *)
(* from a grid of 100 s, which holds the distances the code distinguishes: *)
(* less than, exactly, and more than alert_cooldown = window_size = 300.   *)
(* Numbers computed by pandas are exact rationals here, or NaN.            *)
(***************************************************************************)
EXTENDS Integers, Sequences, FiniteSets, TLC

VARIABLES
    pc,                 \* position of the loop: "tick" | "sleep" | "crashed"
    current_time,       \* the wall clock as the last tick read it
    last_alert_time,    \* self.last_alert_time: a dict, metric -> time of last alert
    recovered,          \* history: metric -> time of its last alert, once seen at or below threshold
    log_file,           \* the record source as the last tick found it
    recent_data,        \* the window the last tick extracted
    stats,              \* the snapshot the last tick computed
    notified,           \* the notifications the last tick dispatched, in order
    prior_alert_time,   \* last_alert_time as the last tick found it
    error,              \* the exception the last tick raised, or "none"
    delay,              \* seconds the loop sleeps after the last tick
    plot,               \* what the microburst window shows (MicroburstMonitor.ax)
    dashboard           \* what the statistics window shows (StatsDashboard.stats_labels)

vars == <<pc, current_time, last_alert_time, recovered, log_file, recent_data, stats,
          notified, prior_alert_time, error, delay, plot, dashboard>>

-----------------------------------------------------------------------------
(* Bounds of the model *)

\* clock readings and timestamps are 0, 100, ..., 100 * MaxClock
MaxClock == 4
\* rows of the log file in the monitoring loop
MaxFeed == 2
\* rows of the log file when a single tick is applied to every file
MaxRows == 2
\* rows of the longest runs of samples shown to the microburst window
MaxSamples == 5

(* Program constants *)

alert_cooldown == 300
window_size == 300
tick_sleep == 1
error_sleep == 5

alert_thresholds == [rtt |-> 100, jitter |-> 20, loss_rate |-> 5]

Metrics == {"rtt", "jitter", "loss_rate"}

ClockValues == {100 * k : k \in 0..MaxClock}

-----------------------------------------------------------------------------
(* Numbers: exact rationals in lowest terms, or NaN *)

RECURSIVE GCD(_, _)
GCD(a, b) == IF b = 0 THEN a ELSE GCD(b, a % b)

Abs(x) == IF x < 0 THEN -x ELSE x

\* A number is num/den, or the square root of num/den when root is set (the
\* standard deviation), or NaN.  Every number of the model is >= 0.
NaN == [nan |-> TRUE, num |-> 0, den |-> 1, root |-> FALSE]

Rat(n, d) ==
    LET g == GCD(Abs(n), Abs(d))
        s == IF d < 0 THEN -1 ELSE 1
    IN  [nan |-> FALSE, num |-> s * (n \div g), den |-> s * (d \div g), root |-> FALSE]

Add(a, b) == IF a.nan \/ b.nan THEN NaN ELSE Rat(a.num * b.den + b.num * a.den, a.den * b.den)
Sub(a, b) == IF a.nan \/ b.nan THEN NaN ELSE Rat(a.num * b.den - b.num * a.den, a.den * b.den)
Mul(a, b) == IF a.nan \/ b.nan THEN NaN ELSE Rat(a.num * b.num, a.den * b.den)
Div(a, b) == IF a.nan \/ b.nan \/ b.num = 0 THEN NaN ELSE Rat(a.num * b.den, a.den * b.num)
Sqrt(a) == IF a.nan THEN NaN ELSE [a EXCEPT !.root = TRUE]

\* the square of a number, as a plain rational
Square(a) == IF a.root THEN [a EXCEPT !.root = FALSE] ELSE Mul(a, a)

\* a > b as Python compares floats: False when either side is NaN.  Numbers
\* are >= 0, so a root is compared through the squares.
Gt(a, b) ==
    /\ ~a.nan /\ ~b.nan
    /\ LET x == IF a.root \/ b.root THEN Square(a) ELSE a
           y == IF a.root \/ b.root THEN Square(b) ELSE b
       IN  x.num * y.den > y.num * x.den

Le(a, b) == ~a.nan /\ ~b.nan /\ ~Gt(a, b)

-----------------------------------------------------------------------------
(* Rows of the log file *)

\* the timestamp field as text: a datetime, blank, or text that is no datetime
Time(t) == [kind |-> "time", at |-> t]
Blank == [kind |-> "blank", at |-> 0]
Garbage == [kind |-> "garbage", at |-> 0]

RttValues == {50, 150}

\* status and rtt of a row: a successful probe has an rtt; a failed one has a
\* blank rtt, or carries a number that is no measurement
Probes ==
    {[status |-> "success", rtt |-> Rat(v, 1)] : v \in RttValues}
    \cup {[status |-> "failed", rtt |-> NaN],
          [status |-> "failed", rtt |-> Rat(150, 1)]}

Row(ts, p) == [timestamp |-> ts, rtt |-> p.rtt, status |-> p.status]

RECURSIVE SeqsUpTo(_, _)
SeqsUpTo(S, n) ==
    IF n = 0 THEN {<< >>}
    ELSE LET shorter == SeqsUpTo(S, n - 1)
         IN  shorter \cup {Append(s, x) : s \in {t \in shorter : Len(t) = n - 1}, x \in S}

File(rows) == [state |-> "ok", rows |-> rows]
Absent == [state |-> "absent", rows |-> << >>]
Unreadable == [state |-> "unreadable", rows |-> << >>]

-----------------------------------------------------------------------------
(* pandas: reading and parsing the log file (monitor, lines 99-101) *)

\* faulty variant: a file that cannot be read is taken for an empty one
read_csv_empty_on_error(f) ==
    [raised |-> FALSE, rows |-> IF f.state = "unreadable" THEN << >> ELSE f.rows]

\* pd.read_csv: raises when the file cannot be read, else the rows as text
read_csv(f) ==
    IF f.state = "unreadable"
    THEN [raised |-> TRUE, rows |-> << >>]
    ELSE [raised |-> FALSE, rows |-> f.rows]

\* a parsed timestamp: a datetime, or NaT for a blank field
ParseTimestamp(ts) ==
    IF ts.kind = "time" THEN [nat |-> FALSE, at |-> ts.at] ELSE [nat |-> TRUE, at |-> 0]

\* pd.to_datetime(df['timestamp']) with the default errors='raise': one field
\* that is no datetime raises for the whole column
to_datetime(rows) ==
    IF \E i \in 1..Len(rows) : rows[i].timestamp.kind = "garbage"
    THEN [raised |-> TRUE, rows |-> << >>]
    ELSE [raised |-> FALSE,
          rows |-> [i \in 1..Len(rows) |->
                      [rows[i] EXCEPT !.timestamp = ParseTimestamp(@)]]]

\* df[df['timestamp'] > cutoff_time]: a comparison with NaT is False
InWindow(row, now) ==
    /\ ~row.timestamp.nat
    /\ row.timestamp.at > now - window_size

Window(df, now) == SelectSeq(df, LAMBDA row : InWindow(row, now))

-----------------------------------------------------------------------------
(* calculate_statistics *)

\* faulty variant: the status is compared with a literal the log never holds
IsSuccessWrongLiteral(row) == row.status = "ok"

IsSuccess(row) == row.status = "success"

\* the rtt column without its NaN (pandas reductions skip NaN)
Values(df) ==
    LET kept == SelectSeq(df, LAMBDA row : ~row.rtt.nan)
    IN  [i \in 1..Len(kept) |-> kept[i].rtt]

RECURSIVE Sum(_)
Sum(xs) == IF xs = << >> THEN Rat(0, 1) ELSE Add(Head(xs), Sum(Tail(xs)))

RECURSIVE Least(_)
Least(xs) ==
    IF Len(xs) = 1 THEN Head(xs)
    ELSE LET m == Least(Tail(xs)) IN IF Gt(m, Head(xs)) THEN Head(xs) ELSE m

RECURSIVE Greatest(_)
Greatest(xs) ==
    IF Len(xs) = 1 THEN Head(xs)
    ELSE LET m == Greatest(Tail(xs)) IN IF Gt(Head(xs), m) THEN Head(xs) ELSE m

Mean(xs) == IF xs = << >> THEN NaN ELSE Div(Sum(xs), Rat(Len(xs), 1))
Min(xs) == IF xs = << >> THEN NaN ELSE Least(xs)
Max(xs) == IF xs = << >> THEN NaN ELSE Greatest(xs)

\* Series.std(): the sample standard deviation (ddof = 1), NaN below 2 values
Std(xs) ==
    IF Len(xs) < 2 THEN NaN
    ELSE LET mu == Mean(xs)
             sq == [i \in 1..Len(xs) |-> Mul(Sub(xs[i], mu), Sub(xs[i], mu))]
         IN  Sqrt(Div(Sum(sq), Rat(Len(xs) - 1, 1)))

\* (1 - len(successful_pings) / len(df)) * 100
LossRate(successful, total) ==
    Mul(Sub(Rat(1, 1), Rat(successful, total)), Rat(100, 1))

None ==
    [defined |-> FALSE, avg |-> NaN, max |-> NaN, min |-> NaN,
     jitter |-> NaN, loss_rate |-> NaN]

\* faulty variant: no return of None when no ping succeeded
calculate_statistics_unguarded(df) ==
    IF df = << >> THEN None
    ELSE LET successful_pings == SelectSeq(df, IsSuccess)
             rtt == Values(successful_pings)
         IN  [defined |-> TRUE,
              avg |-> Mean(rtt),
              max |-> Max(rtt),
              min |-> Min(rtt),
              jitter |-> Std(rtt),
              loss_rate |-> LossRate(Len(successful_pings), Len(df))]

\* faulty variant: the statistics are taken over the rtt of every row of the window
calculate_statistics_all_rows(df) ==
    IF df = << >> THEN None
    ELSE LET successful_pings == SelectSeq(df, IsSuccess)
             rtt == Values(df)
         IN  IF successful_pings = << >> THEN None
             ELSE [defined |-> TRUE,
                   avg |-> Mean(rtt),
                   max |-> Max(rtt),
                   min |-> Min(rtt),
                   jitter |-> Std(rtt),
                   loss_rate |-> LossRate(Len(successful_pings), Len(df))]

calculate_statistics(df) ==
    IF df = << >> THEN None
    ELSE LET successful_pings == SelectSeq(df, IsSuccess)
             rtt == Values(successful_pings)
         IN  IF successful_pings = << >> THEN None
             ELSE [defined |-> TRUE,
                   avg |-> Mean(rtt),
                   max |-> Max(rtt),
                   min |-> Min(rtt),
                   jitter |-> Std(rtt),
                   loss_rate |-> LossRate(Len(successful_pings), Len(df))]

-----------------------------------------------------------------------------
(* send_notification and check_thresholds *)

\* the key of the snapshot that check_thresholds compares for a metric
StatOf(st, m) ==
    CASE m = "rtt" -> st.avg
      [] m = "jitter" -> st.jitter
      [] m = "loss_rate" -> st.loss_rate

Threshold(m) == Rat(alert_thresholds[m], 1)

Breach(st, m) == st.defined /\ Gt(StatOf(st, m), Threshold(m))

\* faulty variant: no try/except around the delivery, a failed delivery raises
send_notification_raising(m, value, fails) ==
    [note |-> [metric |-> m, value |-> value, threshold |-> alert_thresholds[m],
               delivered |-> ~fails],
     raised |-> fails]

\* The alert is logged, then the desktop notification is attempted inside a
\* try/except: a failed delivery is logged and never raised to the caller.
send_notification(m, value, fails) ==
    [note |-> [metric |-> m, value |-> value, threshold |-> alert_thresholds[m],
               delivered |-> ~fails],
     raised |-> FALSE]

\* faulty variant: one time of last alert for all the metrics
PutEvery(lat, m, t) == [k \in Metrics |-> t]

\* the dict with last_alert_time[m] = t
Put(lat, m, t) == [k \in DOMAIN lat \cup {m} |-> IF k = m THEN t ELSE lat[k]]

NoAlerts == [k \in {} |-> 0]

\* faulty variant: the cooldown is over as soon as alert_cooldown seconds have passed
QuietAtCooldown(lat, m, now) == m \notin DOMAIN lat \/ now - lat[m] >= alert_cooldown

\* faulty variant: the distance to the last alert is taken without its sign
QuietEitherWay(lat, m, now) == m \notin DOMAIN lat \/ Abs(now - lat[m]) > alert_cooldown

\* a metric is Quiet when it has no entry, or its cooldown has elapsed
Quiet(lat, m, now) == m \notin DOMAIN lat \/ now - lat[m] > alert_cooldown

\* the dict without its entry for m
Drop(lat, m) == [k \in DOMAIN lat \ {m} |-> lat[k]]

\* faulty variant: a metric at or below its threshold forgets its last alert
check_metric_resetting(m, value, now, acc, failing) ==
    IF acc.raised THEN acc
    ELSE IF Gt(value, Threshold(m))
    THEN IF Quiet(acc.last_alert_time, m, now)
         THEN [acc EXCEPT !.notified =
                              Append(@, send_notification(m, value, m \in failing).note),
                          !.last_alert_time = Put(@, m, now)]
         ELSE acc
    ELSE [acc EXCEPT !.last_alert_time = Drop(@, m)]

\* faulty variant: a value equal to its threshold alerts
check_metric_at_threshold(m, value, now, acc, failing) ==
    IF acc.raised THEN acc
    ELSE IF (Gt(value, Threshold(m)) \/ value = Threshold(m))
            /\ Quiet(acc.last_alert_time, m, now)
    THEN [acc EXCEPT !.notified =
                         Append(@, send_notification(m, value, m \in failing).note),
                     !.last_alert_time = Put(@, m, now)]
    ELSE acc

\* One of the three blocks of check_thresholds.  acc holds the dict, the
\* notifications sent so far and whether an earlier block raised.
check_metric(m, value, now, acc, failing) ==
    IF acc.raised THEN acc
    ELSE IF Gt(value, Threshold(m)) /\ Quiet(acc.last_alert_time, m, now)
    THEN LET sent == send_notification(m, value, m \in failing)
         IN  IF sent.raised
             THEN [acc EXCEPT !.notified = Append(@, sent.note), !.raised = TRUE]
             ELSE [acc EXCEPT !.notified = Append(@, sent.note),
                              !.last_alert_time = Put(@, m, now)]
    ELSE acc

\* faulty variant: the three blocks are alternatives, the first alert ends the check
check_thresholds_first_only(st, now, lat, failing) ==
    LET a0 == [last_alert_time |-> lat, notified |-> << >>, raised |-> FALSE]
        a1 == check_metric("rtt", st.avg, now, a0, failing)
        a2 == IF a1.notified # << >> THEN a1
              ELSE check_metric("jitter", st.jitter, now, a1, failing)
    IN  IF a2.notified # << >> THEN a2
        ELSE check_metric("loss_rate", st.loss_rate, now, a2, failing)

\* faulty variant: a jitter that is NaN raises and ends the check
check_thresholds_raising_on_nan(st, now, lat, failing) ==
    LET a0 == [last_alert_time |-> lat, notified |-> << >>, raised |-> FALSE]
        a1 == check_metric("rtt", st.avg, now, a0, failing)
        a2 == IF st.jitter.nan THEN [a1 EXCEPT !.raised = TRUE]
              ELSE check_metric("jitter", st.jitter, now, a1, failing)
    IN  check_metric("loss_rate", st.loss_rate, now, a2, failing)

check_thresholds(st, now, lat, failing) ==
    LET a0 == [last_alert_time |-> lat, notified |-> << >>, raised |-> FALSE]
        a1 == check_metric("rtt", st.avg, now, a0, failing)
        a2 == check_metric("jitter", st.jitter, now, a1, failing)
    IN  check_metric("loss_rate", st.loss_rate, now, a2, failing)

-----------------------------------------------------------------------------
(* monitor: one pass of the try block *)

Outcome(err, recent, st, sent, lat) ==
    [error |-> err, recent_data |-> recent, stats |-> st, notified |-> sent,
     last_alert_time |-> lat]

\* f: the log file as found; now: the clock; lat: self.last_alert_time;
\* failing: the metrics whose desktop notification cannot be delivered
monitor_tick(f, now, lat, failing) ==
    IF f.state = "absent" THEN Outcome("none", << >>, None, << >>, lat)
    ELSE LET read == read_csv(f)
         IN  IF read.raised THEN Outcome("OSError", << >>, None, << >>, lat)
             ELSE LET df == to_datetime(read.rows)
                  IN  IF df.raised THEN Outcome("ValueError", << >>, None, << >>, lat)
                      ELSE LET recent == Window(df.rows, now)
                               st == IF recent = << >> THEN None
                                     ELSE calculate_statistics(recent)
                           IN  IF ~st.defined THEN Outcome("none", recent, st, << >>, lat)
                               ELSE LET acc == check_thresholds(st, now, lat, failing)
                                    IN  Outcome(IF acc.raised THEN "NotifyError" ELSE "none",
                                                recent, st, acc.notified,
                                                acc.last_alert_time)

\* faulty variant: except ValueError
CatchesValueError(err) == err = "ValueError"

\* except Exception: every error a tick can raise derives from Exception
Catches(err) == TRUE

\* the metrics of the notifications in a sequence
Dispatched(sent) == {sent[i].metric : i \in 1..Len(sent)}

\* History of recoveries: the metrics that were alerted and have since been
\* seen at or below their threshold, each with the time of that alert.  old:
\* the history before the tick; r: the tick's outcome; lat: the dict before it.
Recovered(old, r, lat) ==
    LET seen == {m \in Metrics :
                   /\ m \notin Dispatched(r.notified)
                   /\ \/ m \in DOMAIN old
                      \/ /\ m \in DOMAIN lat
                         /\ r.stats.defined
                         /\ Le(StatOf(r.stats, m), Threshold(m))}
    IN  [m \in seen |-> IF m \in DOMAIN old THEN old[m] ELSE lat[m]]

-----------------------------------------------------------------------------
(* latency_visualizer.py: the microburst window *)

\* self.window_size = timedelta(seconds=10) of the windows of the visualizer
view_window_size == 10
\* the sanity ceiling of detect_microbursts
diff_ceiling == 100

\* self.microburst_threshold = 0.5
microburst_threshold == Rat(1, 2)

\* |a|
AbsOf(a) == IF a.nan THEN NaN ELSE Rat(Abs(a.num), a.den)

\* a row of the log with its interface counters
Sample(ts, p, drops, errors) ==
    [timestamp |-> ts, rtt |-> p.rtt, status |-> p.status,
     interface_drops |-> drops, interface_errors |-> errors]

\* BaseMonitorWindow.load_data: the frame with its index, the timestamps
\* parsed and the rtt of the failed rows blanked; an empty frame when the
\* file cannot be read or a timestamp is no datetime
load_data(f) ==
    IF f.state # "ok" THEN << >>
    ELSE LET read == read_csv(f)
             df == to_datetime(read.rows)
         IN  IF read.raised \/ df.raised THEN << >>
             ELSE [i \in 1..Len(df.rows) |->
                     [index |-> i,
                      timestamp |-> df.rows[i].timestamp,
                      rtt |-> IF df.rows[i].status = "failed" THEN NaN ELSE df.rows[i].rtt,
                      status |-> df.rows[i].status,
                      rtt_diff |-> NaN]]

\* df['timestamp'].max(): NaT when no row has a datetime
LatestTimestamp(df) ==
    LET at == {df[i].timestamp.at : i \in {j \in 1..Len(df) : ~df[j].timestamp.nat}}
    IN  IF at = {} THEN [nat |-> TRUE, at |-> 0]
        ELSE [nat |-> FALSE, at |-> CHOOSE t \in at : \A u \in at : u <= t]

\* df.loc[(timestamp >= start_time) & (timestamp <= current_time)]
TrailingWindow(df, latest) ==
    SelectSeq(df, LAMBDA row :
        /\ ~row.timestamp.nat
        /\ row.timestamp.at >= latest - view_window_size
        /\ row.timestamp.at <= latest)

\* df['rtt_diff'] = df['rtt'].diff(): the difference with the row before, in
\* the frame it is applied to; NaN for the first row
diff(df) ==
    [i \in 1..Len(df) |->
        [df[i] EXCEPT !.rtt_diff = IF i = 1 THEN NaN ELSE Sub(df[i].rtt, df[i - 1].rtt)]]

\* MicroburstMonitor.detect_microbursts: the differences are taken again over
\* the frame it is given
detect_microbursts(df) ==
    IF df = << >> THEN << >>
    ELSE LET again == diff(df)
             capped == [i \in 1..Len(again) |->
                          IF Gt(AbsOf(again[i].rtt_diff), Rat(diff_ceiling, 1))
                          THEN [again[i] EXCEPT !.rtt_diff = NaN] ELSE again[i]]
         IN  SelectSeq(capped, LAMBDA row : Gt(AbsOf(row.rtt_diff), microburst_threshold))

Plot(window, valid, bursts) ==
    [df_window |-> window, valid_diff |-> valid, microbursts |-> bursts]

NoPlot == Plot(<< >>, << >>, << >>)

\* MicroburstMonitor.update_plot on the file f: what is drawn after the frame.
\* The axes are cleared only once a window is found; before that the frame
\* returns and the drawing stays.
draw(f, old) ==
    LET df == load_data(f)
        latest == LatestTimestamp(df)
    IN  IF df = << >> \/ latest.nat THEN old
        ELSE LET df_window == diff(TrailingWindow(df, latest.at))
                 valid_diff == SelectSeq(df_window, LAMBDA row : ~row.rtt_diff.nan)
             IN  IF df_window = << >> THEN old
                 ELSE Plot(df_window, valid_diff, detect_microbursts(valid_diff))

-----------------------------------------------------------------------------
(* latency_visualizer.py: the statistics dashboard *)

\* StatsDashboard.load_data: the rows as read_csv returns them, nothing parsed;
\* an empty frame when the file cannot be read
dashboard_load_data(f) ==
    IF f.state # "ok" THEN << >>
    ELSE LET read == read_csv(f) IN IF read.raised THEN << >> ELSE read.rows

\* (status == 'success') & rtt.notna() & (rtt < 1000) & (rtt > 0)
IsValidPing(row) ==
    /\ row.status = "success"
    /\ ~row.rtt.nan
    /\ Gt(Rat(1000, 1), row.rtt)
    /\ Gt(row.rtt, Rat(0, 1))

NoStats ==
    [defined |-> FALSE, avg_latency |-> NaN, min_latency |-> NaN, max_latency |-> NaN,
     jitter |-> NaN, packet_loss |-> NaN, interface_drops |-> 0, interface_errors |-> 0]

\* StatsDashboard.calculate_stats; the 99th percentile it also computes is
\* shown nowhere
calculate_stats(df) ==
    IF df = << >> THEN NoStats
    ELSE LET valid_pings == SelectSeq(df, IsValidPing)
             rtt == Values(valid_pings)
         IN  IF valid_pings = << >> THEN NoStats
             ELSE [defined |-> TRUE,
                   avg_latency |-> Mean(rtt),
                   min_latency |-> Min(rtt),
                   max_latency |-> Max(rtt),
                   jitter |-> Std(rtt),
                   packet_loss |-> LossRate(Len(valid_pings), Len(df)),
                   interface_drops |-> df[Len(df)].interface_drops,
                   interface_errors |-> df[Len(df)].interface_errors]

\* df: the frame the last timer event read; shown: the statistics on the labels
Labels(df, shown) == [df |-> df, shown |-> shown]

NoLabels == Labels(<< >>, NoStats)

-----------------------------------------------------------------------------
(* The monitoring loop *)

\* the files the producer leaves for a tick of the loop: rows stamped with the
\* time of the tick
Feed(now) ==
    {Absent, Unreadable}
    \cup {File(rows) :
            rows \in SeqsUpTo({Row(Time(now), p) :
                                 p \in {q \in Probes : q.status = "success" \/ q.rtt.nan}},
                              MaxFeed)}

\* every file of at most MaxRows rows, whatever the clock
AllFiles(now) ==
    {Absent, Unreadable}
    \cup {File(rows) :
            rows \in SeqsUpTo({Row(ts, p) :
                                 ts \in {Time(100), Time(200), Time(400), Blank, Garbage},
                                 p \in Probes},
                              MaxRows)}

Init ==
    /\ pc = "tick"
    /\ current_time = 0
    /\ last_alert_time = NoAlerts
    /\ recovered = NoAlerts
    /\ log_file = Absent
    /\ recent_data = << >>
    /\ stats = None
    /\ notified = << >>
    /\ prior_alert_time = NoAlerts
    /\ error = "none"
    /\ delay = 0
    /\ plot = NoPlot
    /\ dashboard = NoLabels

\* The try block and, on an exception, the except block up to its sleep.
\* The tick reads the wall clock (time.time() and datetime.now(), which may
\* step back between ticks) and the file; a delivery can fail only for a
\* metric the tick dispatches.
TickOn(files, tracking) ==
    /\ pc = "tick"
    /\ \E now \in ClockValues :
       \E f \in files[now] :
       \E attempt \in {monitor_tick(f, now, last_alert_time, {})} :
       \E failing \in SUBSET Dispatched(attempt.notified) :
       \E r \in {monitor_tick(f, now, last_alert_time, failing)} :
         /\ current_time' = now
         /\ log_file' = f
         /\ recent_data' = r.recent_data
         /\ stats' = r.stats
         /\ notified' = r.notified
         /\ prior_alert_time' = last_alert_time
         /\ last_alert_time' = r.last_alert_time
         /\ recovered' = IF tracking THEN Recovered(recovered, r, last_alert_time)
                                   ELSE recovered
         /\ error' = r.error
         /\ delay' = IF r.error = "none" THEN tick_sleep ELSE error_sleep
         /\ pc' = IF r.error = "none" \/ Catches(r.error) THEN "sleep" ELSE "crashed"
         /\ UNCHANGED <<plot, dashboard>>

Tick == TickOn([now \in ClockValues |-> Feed(now)], FALSE)

\* time.sleep(delay): the locals of the tick are gone when the loop comes round
Sleep ==
    /\ pc = "sleep"
    /\ pc' = "tick"
    /\ current_time' = 0
    /\ log_file' = Absent
    /\ recent_data' = << >>
    /\ stats' = None
    /\ notified' = << >>
    /\ prior_alert_time' = NoAlerts
    /\ error' = "none"
    /\ delay' = 0
    /\ UNCHANGED <<last_alert_time, recovered, plot, dashboard>>

Next == Tick \/ Sleep

Spec == Init /\ [][Next]_vars

\* the loop fed with what makes a tick fail: no file, a file that cannot be
\* read, rows whose timestamp is no datetime, among rows that breach
Faults(now) ==
    {Absent, Unreadable}
    \cup {File(rows) :
            rows \in SeqsUpTo({Row(ts, [status |-> "success", rtt |-> Rat(150, 1)]) :
                                 ts \in {Time(now), Garbage}},
                              MaxFeed)}

FaultyTick == TickOn([now \in ClockValues |-> Faults(now)], FALSE)

\* under the scheduling of a running process: a step that can be taken is taken
FairSpec ==
    /\ Init /\ [][FaultyTick \/ Sleep]_vars
    /\ WF_vars(FaultyTick) /\ WF_vars(Sleep)

\* the loop fed with successful probes only, so that a metric flaps around its
\* threshold, with the history of recoveries kept
Flapping(now) ==
    {File(rows) :
       rows \in SeqsUpTo({Row(Time(now), p) : p \in {q \in Probes : q.status = "success"}},
                         MaxFeed)}

FlapTick == TickOn([now \in ClockValues |-> Flapping(now)], TRUE)

SpecFlap == Init /\ [][FlapTick \/ Sleep]_vars

\* one tick, the first after startup, on every file
FirstTick == TickOn([now \in ClockValues |-> AllFiles(now)], FALSE)

SpecTick == Init /\ [][FirstTick]_vars

-----------------------------------------------------------------------------
(* The windows of the visualizer *)

MonitorVars == <<pc, current_time, last_alert_time, recovered, log_file, recent_data,
                 stats, notified, prior_alert_time, error, delay>>

Fast == [status |-> "success", rtt |-> Rat(50, 1)]
Slower == [status |-> "success", rtt |-> Rat(60, 1)]
Spike == [status |-> "success", rtt |-> Rat(200, 1)]
Lost == [status |-> "failed", rtt |-> NaN]

\* The files a frame of the microburst window finds, their rows stamped 20 s:
\* long runs of two rtt values and failures, short runs that also hold a
\* spike, the short runs with a row older than the window or a row without
\* timestamp before or behind them, and the files that cannot be loaded.
PlotFiles ==
    LET long == SeqsUpTo({Sample(Time(20), p, 0, 0) : p \in {Fast, Slower, Lost}},
                         MaxSamples)
        short == SeqsUpTo({Sample(Time(20), p, 0, 0) : p \in {Fast, Slower, Spike, Lost}},
                          MaxRows + 1)
        stray == {Sample(Time(0), Spike, 0, 0), Sample(Blank, Spike, 0, 0)}
    IN  {Absent, Unreadable, File(<<Sample(Garbage, Fast, 0, 0)>>)}
        \cup {File(rows) : rows \in long \cup short}
        \cup {File(<<x>> \o rows) : x \in stray, rows \in short}
        \cup {File(rows \o <<x>>) : x \in stray, rows \in short}

\* MicroburstMonitor.update_plot: a frame of the animation
update_plot ==
    /\ \E f \in PlotFiles : plot' = draw(f, plot)
    /\ UNCHANGED <<MonitorVars, dashboard>>

SpecPlot == Init /\ [][update_plot]_vars

\* the files a timer event of the dashboard finds: rows in and out of time
\* order, with a fast ping, a ping of more than a second, or a failure
DashFiles ==
    {Absent, Unreadable}
    \cup {File(rows) :
            rows \in SeqsUpTo({Sample(Time(t), p, t \div 10, t \div 20) :
                                 t \in {10, 20},
                                 p \in {Fast, [status |-> "success", rtt |-> Rat(1500, 1)],
                                        Lost}},
                              MaxRows)}

\* StatsDashboard.timerEvent: the labels are set only when there are statistics
timerEvent ==
    /\ \E f \in DashFiles :
       \E df \in {dashboard_load_data(f)} :
       \E st \in {calculate_stats(df)} :
         dashboard' = Labels(df, IF df = << >> \/ ~st.defined THEN dashboard.shown ELSE st)
    /\ UNCHANGED <<MonitorVars, plot>>

SpecDash == Init /\ [][timerEvent]_vars

-----------------------------------------------------------------------------
(* Properties *)

TickDone == pc # "tick"

Count(m, sent) == Cardinality({i \in 1..Len(sent) : sent[i].metric = m})

Cooling(lat, m, now) == m \in DOMAIN lat /\ now - lat[m] <= alert_cooldown

KeptAlert(m) ==
    (m \in DOMAIN last_alert_time <=> m \in DOMAIN prior_alert_time)
    /\ (m \in DOMAIN last_alert_time => last_alert_time[m] = prior_alert_time[m])

\* C1: while a metric stays above its threshold, a tick within alert_cooldown
\* seconds of its last alert dispatches nothing for it and keeps the time of
\* that alert; the first tick after alert_cooldown has elapsed (and the first
\* breaching tick of all) dispatches exactly one notification and records
\* its time.
C1_Deduplication ==
    TickDone /\ stats.defined =>
        \A m \in Metrics :
            Breach(stats, m) =>
                IF Cooling(prior_alert_time, m, current_time)
                THEN Count(m, notified) = 0 /\ KeptAlert(m)
                ELSE /\ Count(m, notified) = 1
                     /\ m \in DOMAIN last_alert_time
                     /\ last_alert_time[m] = current_time

\* a second alert: the breach was notified before and the cooldown has elapsed
C1_Witness ==
    /\ pc = "sleep"
    /\ \E m \in Metrics :
        /\ Breach(stats, m)
        /\ m \in DOMAIN prior_alert_time
        /\ current_time - prior_alert_time[m] > alert_cooldown
        /\ Count(m, notified) = 1
        /\ last_alert_time[m] = current_time

\* C2: a metric that was alerted at t0, has since been seen at or below its
\* threshold, and breaches again at a time t with t - t0 <= alert_cooldown is
\* not notified on that tick, and last_alert_time of the metric stays t0.
C2_RecoveryKeepsCooldown ==
    [][\A m \in DOMAIN recovered :
          (pc = "tick" /\ pc' # "tick" /\ Breach(stats', m)
             /\ current_time' - recovered[m] <= alert_cooldown)
          => /\ Count(m, notified') = 0
             /\ m \in DOMAIN last_alert_time'
             /\ last_alert_time'[m] = recovered[m]]_vars

\* a breach, after a recovery, within the cooldown of the first alert
C2_Witness ==
    /\ pc = "sleep"
    /\ \E m \in DOMAIN recovered :
        /\ Breach(stats, m)
        /\ current_time - recovered[m] <= alert_cooldown
        /\ current_time > recovered[m]
        /\ Count(m, notified) = 0

\* the rows of a file whose timestamp is a datetime
WellFormed(rows) == SelectSeq(rows, LAMBDA row : row.timestamp.kind = "time")

HasMalformedRow ==
    /\ log_file.state = "ok"
    /\ \E i \in 1..Len(log_file.rows) : log_file.rows[i].timestamp.kind # "time"

\* what the tick does on the file without its malformed rows, no delivery failing
OnWellFormed ==
    monitor_tick(File(WellFormed(log_file.rows)), current_time, prior_alert_time, {})

\* C3: a tick on a file with a row whose timestamp is missing or unparsable
\* raises nothing, drops only that row, and extracts the window, computes the
\* statistics and notifies the breaches of the remaining rows.
C3_MalformedRowDropped ==
    TickDone /\ HasMalformedRow =>
        /\ error = "none"
        /\ recent_data = OnWellFormed.recent_data
        /\ stats = OnWellFormed.stats
        /\ Dispatched(notified) = Dispatched(OnWellFormed.notified)
        /\ last_alert_time = OnWellFormed.last_alert_time

\* C4: no error of a tick ends the loop: after a tick that raised, the loop
\* comes back to the top of its body, and a tick that can run is run.
C4_LoopSurvives ==
    /\ (error # "none") ~> (pc = "tick")
    /\ (pc = "tick") ~> (pc = "sleep")

\* a tick has raised, the error is caught and the longer sleep is pending
C4_Witness ==
    /\ pc = "sleep"
    /\ error # "none"
    /\ delay = error_sleep
    /\ last_alert_time # NoAlerts

NoSuccess(df) == \A i \in 1..Len(df) : df[i].status # "success"

\* C5: a tick whose window is empty or holds no successful record dispatches
\* no notification and leaves last_alert_time as it was, for every metric.
C5_UndefinedSnapshotSilent ==
    TickDone /\ NoSuccess(recent_data) =>
        /\ ~stats.defined
        /\ notified = << >>
        /\ last_alert_time = prior_alert_time

\* a window of failed probes only, met while an alert state exists
C5_Witness ==
    /\ pc = "sleep"
    /\ recent_data # << >>
    /\ NoSuccess(recent_data)
    /\ ~stats.defined
    /\ last_alert_time # NoAlerts

\* C6: for a non-empty window the snapshot carries a loss_rate within
\* [0, 100], and it is exactly 100 when no record of the window succeeded.
C6_LossRateRange ==
    TickDone /\ recent_data # << >> =>
        /\ Le(Rat(0, 1), stats.loss_rate)
        /\ Le(stats.loss_rate, Rat(100, 1))
        /\ NoSuccess(recent_data) => stats.loss_rate = Rat(100, 1)

\* C7: a tick in which a delivery fails raises nothing; every metric that
\* breaches and is Quiet is dispatched once, the one whose delivery failed
\* included, and its last_alert_time is the time of the tick, so that it is
\* Cooling for the alert_cooldown seconds that follow.
C7_FailedDeliveryKeepsState ==
    TickDone /\ (\E i \in 1..Len(notified) : ~notified[i].delivered) =>
        /\ error = "none"
        /\ \A m \in Metrics :
              Breach(stats, m) /\ ~Cooling(prior_alert_time, m, current_time) =>
                  /\ Count(m, notified) = 1
                  /\ m \in DOMAIN last_alert_time
                  /\ last_alert_time[m] = current_time
                  /\ \A t \in ClockValues :
                        t - current_time <= alert_cooldown =>
                            ~Quiet(last_alert_time, m, t)

\* the first delivery of a tick fails and a later metric is still notified
C7_Witness ==
    /\ pc = "sleep"
    /\ Len(notified) >= 2
    /\ ~notified[1].delivered
    /\ last_alert_time[notified[1].metric] = current_time
    /\ last_alert_time[notified[2].metric] = current_time

\* the rows a window over (now - window_size, now] holds, in source order
InRange(df, now) ==
    SelectSeq(df, LAMBDA row :
        /\ ~row.timestamp.nat
        /\ row.timestamp.at > now - window_size
        /\ row.timestamp.at <= now)

\* C8: the window of a tick at time now is the subsequence, in source order,
\* of the records whose timestamp is in (now - window_size, now], whatever
\* their position; a record stamped later than now is not in it.
C8_WindowByValue ==
    TickDone /\ error = "none" /\ log_file.state = "ok" =>
        recent_data = InRange(to_datetime(log_file.rows).rows, current_time)

Succeeded(df) == SelectSeq(df, LAMBDA row : row.status = "success")

\* C9: the snapshot is undefined exactly when the window holds no successful
\* record; a snapshot that is defined has a number, never NaN, for avg, min,
\* max and loss_rate.
C9_UndefinedIffNoSuccess ==
    TickDone /\ error = "none" /\ log_file.state = "ok" =>
        /\ stats.defined <=> Succeeded(recent_data) # << >>
        /\ stats.defined =>
              /\ ~stats.avg.nan
              /\ ~stats.min.nan
              /\ ~stats.max.nan
              /\ ~stats.loss_rate.nan

\* a window of failed records only: the snapshot is undefined
C9_Witness ==
    /\ pc = "sleep"
    /\ error = "none"
    /\ Len(recent_data) >= 2
    /\ Succeeded(recent_data) = << >>
    /\ ~stats.defined

\* C10: avg, min, max and jitter of a window are those of its successful
\* records alone, whatever rtt its failed records carry; the failed records
\* count in the denominator of loss_rate, which they raise.
C10_FailedRowsOnlyInLoss ==
    TickDone /\ stats.defined =>
        LET ok == Succeeded(recent_data)
            alone == calculate_statistics(ok)
        IN  /\ stats.avg = alone.avg
            /\ stats.min = alone.min
            /\ stats.max = alone.max
            /\ stats.jitter = alone.jitter
            /\ stats.loss_rate =
                 Rat((Len(recent_data) - Len(ok)) * 100, Len(recent_data))
            /\ Len(ok) < Len(recent_data) => Gt(stats.loss_rate, alone.loss_rate)

\* a window with a successful record and a failed one that carries an rtt
C10_Witness ==
    /\ pc = "sleep"
    /\ stats.defined
    /\ \E i \in 1..Len(recent_data) :
          recent_data[i].status = "failed" /\ ~recent_data[i].rtt.nan
    /\ Gt(stats.loss_rate, Rat(0, 1))

\* the position in the window of a sample of the window
PlaceOf(sample) ==
    CHOOSE k \in 1..Len(plot.df_window) : plot.df_window[k].index = sample.index

\* C11: every sample the microburst window flags carries the difference of
\* its rtt with the rtt of the sample just before it in the window, so that
\* no flagged difference spans a failed sample or any other sample.
C11_DiffOfNeighbours ==
    \A i \in 1..Len(plot.microbursts) :
        LET flagged == plot.microbursts[i]
            k == PlaceOf(flagged)
        IN  /\ k > 1
            /\ flagged.rtt_diff = Sub(flagged.rtt, plot.df_window[k - 1].rtt)

Indexes(df) == [i \in 1..Len(df) |-> df[i].index]

\* the samples of the window whose difference with the sample before exceeds
\* the threshold and not the ceiling
Bursts(df_window) ==
    SelectSeq(df_window, LAMBDA row :
        /\ Gt(AbsOf(row.rtt_diff), microburst_threshold)
        /\ ~Gt(AbsOf(row.rtt_diff), Rat(diff_ceiling, 1)))

\* C12: the flagged samples are, in window order, exactly the samples of the
\* window whose absolute difference with the sample before exceeds
\* microburst_threshold and does not exceed the ceiling.
C12_FlaggedSetExact ==
    Indexes(plot.microbursts) = Indexes(Bursts(plot.df_window))

\* the greatest timestamp of the rows of a frame as read_csv returns it
Newest(df) ==
    CHOOSE t \in {df[i].timestamp.at : i \in 1..Len(df)} :
        \A i \in 1..Len(df) : df[i].timestamp.at <= t

\* C13: the interface_drops and interface_errors of a snapshot are those of
\* a record with the greatest timestamp, whatever the order of the records.
C13_CountersOfNewest ==
    LET st == calculate_stats(dashboard.df)
    IN  st.defined =>
            \E i \in 1..Len(dashboard.df) :
                /\ dashboard.df[i].timestamp.at = Newest(dashboard.df)
                /\ st.interface_drops = dashboard.df[i].interface_drops
                /\ st.interface_errors = dashboard.df[i].interface_errors

\* C14: on the same window the loss_rate of the alert monitor and the
\* packet_loss of the dashboard are both (1 - successful / total) * 100, with
\* successful the number of records of status success.
C14_LossRateAgreement ==
    dashboard.df # << >> /\ Succeeded(dashboard.df) # << >> =>
        LET expected == LossRate(Len(Succeeded(dashboard.df)), Len(dashboard.df))
            alert == calculate_statistics(dashboard.df)
            shown == calculate_stats(dashboard.df)
        IN  /\ alert.defined /\ alert.loss_rate = expected
            /\ shown.defined /\ shown.packet_loss = expected

\* C15: a notification for a metric that was notified before comes strictly
\* more than alert_cooldown seconds after the last one; a breach exactly
\* alert_cooldown seconds after it is suppressed; and last_alert_time of a
\* metric only grows, whatever clock the ticks read.
C15_StrictCooldownGap ==
    TickDone =>
        \A m \in Metrics \cap DOMAIN prior_alert_time :
            /\ m \in DOMAIN last_alert_time
            /\ last_alert_time[m] >= prior_alert_time[m]
            /\ Count(m, notified) > 0 =>
                  /\ current_time - prior_alert_time[m] > alert_cooldown
                  /\ last_alert_time[m] > prior_alert_time[m]
            /\ current_time - prior_alert_time[m] = alert_cooldown =>
                  /\ Count(m, notified) = 0
                  /\ last_alert_time[m] = prior_alert_time[m]

\* a breach exactly alert_cooldown seconds after the last alert, suppressed
C15_Witness ==
    /\ pc = "sleep"
    /\ \E m \in DOMAIN prior_alert_time :
        /\ Breach(stats, m)
        /\ current_time - prior_alert_time[m] = alert_cooldown
        /\ Count(m, notified) = 0

\* last_alert_time of m is the same after the step as before
Unchanged(m) ==
    IF m \in DOMAIN last_alert_time
    THEN m \in DOMAIN last_alert_time' /\ last_alert_time'[m] = last_alert_time[m]
    ELSE m \notin DOMAIN last_alert_time'

\* C16: last_alert_time is empty at startup; the entry of a metric changes
\* only in a tick that dispatches a notification for it, and becomes the time
\* of that tick; a tick whose snapshot has the metric at or below its
\* threshold, or that finds the metric Cooling, dispatches nothing for it and
\* leaves its entry as it is.
C16_AlertTimeFrame ==
    /\ last_alert_time = NoAlerts
    /\ [][\A m \in Metrics :
            /\ ~Unchanged(m) =>
                  /\ pc = "tick"
                  /\ Count(m, notified') = 1
                  /\ last_alert_time'[m] = current_time'
            /\ (/\ pc = "tick" /\ pc' # "tick"
                /\ \/ stats'.defined /\ Le(StatOf(stats', m), Threshold(m))
                   \/ Cooling(last_alert_time, m, current_time'))
               => Unchanged(m) /\ Count(m, notified') = 0]_vars

\* a tick whose avg rtt is exactly the threshold, and no alert for rtt
C16_Witness ==
    /\ pc = "sleep"
    /\ stats.defined
    /\ stats.avg = Threshold("rtt")
    /\ Count("rtt", notified) = 0
    /\ "rtt" \notin DOMAIN last_alert_time
    /\ notified # << >>

\* the note the tick dispatched for m carries the value and the threshold
Announced(m) ==
    \E i \in 1..Len(notified) :
        /\ notified[i].metric = m
        /\ notified[i].value = StatOf(stats, m)
        /\ notified[i].threshold = alert_thresholds[m]

\* C17: a metric that has no prior alert, or whose cooldown has elapsed, and
\* whose value exceeds its threshold is notified in that very tick, with its
\* value and threshold, and is Cooling from then on with last_alert_time the
\* time of the tick; the first breaching tick after startup dispatches.
C17_QuietBreachNotified ==
    TickDone /\ stats.defined =>
        \A m \in Metrics :
            Breach(stats, m) /\ ~Cooling(prior_alert_time, m, current_time) =>
                /\ Announced(m)
                /\ Cooling(last_alert_time, m, current_time)
                /\ last_alert_time[m] = current_time

\* the first breaching tick after startup, with two metrics above threshold
C17_Witness ==
    /\ pc = "sleep"
    /\ prior_alert_time = NoAlerts
    /\ Cardinality({m \in Metrics : Breach(stats, m)}) >= 2
    /\ Len(notified) >= 2

\* the metric is notified in the tick exactly when it breaches and is not Cooling
Evaluated(m) ==
    Count(m, notified) = 1
        <=> (Breach(stats, m) /\ ~Cooling(prior_alert_time, m, current_time))

\* C18: in a tick whose window holds exactly one successful record the jitter
\* is undefined, no jitter notification is dispatched and last_alert_time of
\* jitter stays; rtt and loss_rate are evaluated against their thresholds.
C18_SingleSampleJitter ==
    TickDone /\ Len(Succeeded(recent_data)) = 1 =>
        /\ error = "none"
        /\ stats.defined
        /\ stats.jitter.nan
        /\ Count("jitter", notified) = 0
        /\ KeptAlert("jitter")
        /\ Evaluated("rtt")
        /\ Evaluated("loss_rate")

\* one successful record among failures: rtt and loss_rate alert, jitter,
\* alerted before, does not
C18_Witness ==
    /\ pc = "sleep"
    /\ Len(Succeeded(recent_data)) = 1
    /\ "jitter" \in DOMAIN last_alert_time
    /\ Dispatched(notified) = {"rtt", "loss_rate"}

\* C19: a tick that cannot read the record source raises, is caught, and the
\* loop sleeps longer than after a tick without error before it tries again;
\* the failed tick dispatches nothing and leaves last_alert_time as it was.
C19_UnreadableBackoff ==
    TickDone =>
        /\ log_file.state = "unreadable" =>
              /\ error # "none"
              /\ pc = "sleep"
              /\ delay > tick_sleep
              /\ notified = << >>
              /\ last_alert_time = prior_alert_time
        /\ error = "none" => delay = tick_sleep

\* an unreadable source met while alerts are cooling
C19_Witness ==
    /\ pc = "sleep"
    /\ log_file.state = "unreadable"
    /\ delay = error_sleep
    /\ last_alert_time # NoAlerts

\* C20: in a tick every metric is notified at most once, exactly when it
\* breaches and its own cooldown is not running, whatever the other metrics
\* do; a metric that is not notified keeps its last_alert_time; at most three
\* notifications are dispatched.
C20_IndependentCooldowns ==
    TickDone /\ stats.defined =>
        /\ Len(notified) <= 3
        /\ \A m \in Metrics :
              /\ Count(m, notified) <= 1
              /\ Evaluated(m)
              /\ Count(m, notified) = 0 => KeptAlert(m)

\* one metric is Cooling and breaches, another is notified in the same tick
C20_Witness ==
    /\ pc = "sleep"
    /\ \E m, n \in Metrics :
        /\ m # n
        /\ Breach(stats, m)
        /\ Cooling(prior_alert_time, m, current_time)
        /\ Count(m, notified) = 0
        /\ last_alert_time[m] = prior_alert_time[m]
        /\ Count(n, notified) = 1
        /\ last_alert_time[n] = current_time
        /\ last_alert_time[n] # last_alert_time[m]

====
